---- MODULE Spec2Model ----
(***************************************************************************)
(* Model of src/main.cpp: an ANARI client whose main thread creates the    *)
(* scene objects and starts eight worker threads (four initializers, three *)
(* polling threads, one render thread), joins them, releases the handles   *)
(* and unloads the library.                                                *)
(*                                                                         *)
(* Every thread is a sequence of instructions, one per library call of the *)
(* source; an action executes one kind of library call for the thread      *)
(* whose program counter stands at such an instruction.  Purely local      *)
(* control flow (the loop tests of the render loop, the construction of    *)
(* the file name) is part of the step that precedes it.  Text written to   *)
(* stdout and stderr is not part of the state.                             *)
(***************************************************************************)
EXTENDS Integers, Sequences, FiniteSets, TLC

\* ---------------------------------------------------------------- constants

\* for (int i=0; i<10; i++)
NumFrames == 10

\* uint2 imageSize = {1024, 1024};
ImageSize == 1024

\* std::exit(1) in statusFunc, return 0 in main
ExitFatal == 1

ExitOk == 0

\* longest extension array (terminator included) the pure-function
\* specification draws
MaxExtensions == 3

Threads ==
  {"main", "initWorld", "initRenderer", "initCamera", "initFrame",
   "queryExtension", "queryBoundsNoWait", "queryBoundsWait", "render"}

Initializers == {"initWorld", "initRenderer", "initCamera", "initFrame"}

Pollers == {"queryExtension", "queryBoundsNoWait", "queryBoundsWait"}

Workers == Threads \ {"main"}

\* every handle the program obtains; "lightArray" is the array that
\* setParameterArray1D creates, sets and releases inside the call
Arrays ==
  {"indicesArray", "positionsArray", "distanceArray", "texelArray",
   "surfaceArray", "lightArray"}

WorldLocals ==
  Arrays \cup {"geometry", "texture", "material", "surface", "light"}

Objects == {"device", "world", "renderer", "camera", "frame"} \cup WorldLocals

Severities == {"FATAL_ERROR", "ERROR", "WARNING", "PERFORMANCE_WARNING", "INFO", "DEBUG"}

NULL == "NULL"

ExtensionNames == {"ANARI_KHR_CAMERA_PERSPECTIVE", "ANARI_KHR_GEOMETRY_SPHERE", "FABRICATED"}

FrameSteps == {"render", "wait", "duration", "map", "write", "unmap"}

VARIABLES
  pc,          \* thread -> 0 (not started), index into its program, or Len+1 (returned)
  loaded,      \* number of loadLibrary calls
  unloaded,    \* number of unloadLibrary calls
  created,     \* handle -> number of times it was obtained
  released,    \* handle -> number of release calls on it
  mapped,      \* handle -> whether it is mapped (arrays, frame color channel)
  staged,      \* handle -> parameters set and not yet committed
  committed,   \* handle -> parameters committed
  commits,     \* handle -> number of commit calls
  finish,      \* poller -> its std::atomic<bool> finish_... flag
  i,           \* loop counter of the render thread
  frameOps,    \* step of render() -> number of times it was done
  fb,          \* the mapped framebuffer descriptor of render(): <<width, height>>
  files,       \* PNG files written, in order: [name, width, height]
  res,         \* << >> or <<b>>: result of the last deviceHasExtension call
  exited,      \* the process has ended
  exitCode,    \* its exit status
  extensions,  \* null-terminated array anariGetDeviceExtensions returns
  extName      \* name asked of deviceHasExtension

vars ==
  <<pc, loaded, unloaded, created, released, mapped, staged, committed, commits,
    finish, i, frameOps, fb, files, res, exited, exitCode,
    extensions, extName>>

handleVars == <<loaded, unloaded, created, released, mapped>>

paramVars == <<staged, committed, commits>>

renderVars == <<i, frameOps, fb, files>>

pollVars == <<finish, res>>

procVars == <<exited, exitCode>>

extVars == <<extensions, extName>>

\* ---------------------------------------------------------------- programs

\* the calls that stage a parameter on an object
Staging == {"setParameter", "setAndReleaseParameter", "setParameterArray1D"}

\* the calls into the library, during which it may report a status message
LibraryCalls ==
  {"loadLibrary", "unloadLibrary", "newDevice", "newObject", "newArray1D",
   "map", "unmap", "setParameter", "setAndReleaseParameter",
   "setParameterArray1D", "commitParameters", "release", "render", "wait",
   "getProperty", "mapFrame", "unmapFrame", "deviceHasExtension"}

\* an instruction: the call, the object it is made on, the parameter or
\* property named, the handle or thread passed; private: the call commutes
\* with every step of the other threads (see Scheduled)
Ins(op, obj, param, arg) ==
  [op |-> op, obj |-> obj, param |-> param, arg |-> arg,
   private |-> (obj \in WorldLocals \/ op \in Staging),
   lib |-> (op \in LibraryCalls)]

\* mutant: the polling threads are joined before the render thread is started
mainThread_JoinsPollersFirst ==
  << Ins("loadLibrary", "library", "", ""),
     Ins("newDevice", "device", "", ""),
     Ins("newObject", "world", "", ""),
     Ins("startThread", "", "", "initWorld"),
     Ins("newObject", "renderer", "", ""),
     Ins("startThread", "", "", "initRenderer"),
     Ins("newObject", "camera", "", ""),
     Ins("startThread", "", "", "initCamera"),
     Ins("newObject", "frame", "", ""),
     Ins("startThread", "", "", "initFrame"),
     Ins("startThread", "", "", "queryExtension"),
     Ins("startThread", "", "", "queryBoundsNoWait"),
     Ins("startThread", "", "", "queryBoundsWait"),
     Ins("join", "", "", "queryBoundsWait"),
     Ins("join", "", "", "queryBoundsNoWait"),
     Ins("join", "", "", "queryExtension"),
     Ins("startThread", "", "", "render"),
     Ins("join", "", "", "render"),
     Ins("join", "", "", "initWorld"),
     Ins("join", "", "", "initRenderer"),
     Ins("join", "", "", "initCamera"),
     Ins("join", "", "", "initFrame"),
     Ins("release", "camera", "", ""),
     Ins("release", "renderer", "", ""),
     Ins("release", "world", "", ""),
     Ins("release", "frame", "", ""),
     Ins("release", "device", "", ""),
     Ins("unloadLibrary", "library", "", ""),
     Ins("return", "", "", "") >>

mainThread ==
  << Ins("loadLibrary", "library", "", ""),
     Ins("newDevice", "device", "", ""),
     Ins("newObject", "world", "", ""),
     Ins("startThread", "", "", "initWorld"),
     Ins("newObject", "renderer", "", ""),
     Ins("startThread", "", "", "initRenderer"),
     Ins("newObject", "camera", "", ""),
     Ins("startThread", "", "", "initCamera"),
     Ins("newObject", "frame", "", ""),
     Ins("startThread", "", "", "initFrame"),
     Ins("startThread", "", "", "queryExtension"),
     Ins("startThread", "", "", "queryBoundsNoWait"),
     Ins("startThread", "", "", "queryBoundsWait"),
     Ins("startThread", "", "", "render"),
     Ins("join", "", "", "render"),
     Ins("join", "", "", "queryBoundsWait"),
     Ins("join", "", "", "queryBoundsNoWait"),
     Ins("join", "", "", "queryExtension"),
     Ins("join", "", "", "initWorld"),
     Ins("join", "", "", "initRenderer"),
     Ins("join", "", "", "initCamera"),
     Ins("join", "", "", "initFrame"),
     Ins("release", "camera", "", ""),
     Ins("release", "renderer", "", ""),
     Ins("release", "world", "", ""),
     Ins("release", "frame", "", ""),
     Ins("release", "device", "", ""),
     Ins("unloadLibrary", "library", "", ""),
     Ins("return", "", "", "") >>

initializeWorld ==
  << Ins("newArray1D", "indicesArray", "", ""),
     Ins("newArray1D", "positionsArray", "", ""),
     Ins("newArray1D", "distanceArray", "", ""),
     Ins("map", "positionsArray", "", ""),
     Ins("map", "distanceArray", "", ""),
     Ins("unmap", "positionsArray", "", ""),
     Ins("unmap", "distanceArray", "", ""),
     Ins("map", "indicesArray", "", ""),
     Ins("unmap", "indicesArray", "", ""),
     Ins("newObject", "geometry", "", ""),
     Ins("setAndReleaseParameter", "geometry", "primitive.index", "indicesArray"),
     Ins("setAndReleaseParameter", "geometry", "vertex.position", "positionsArray"),
     Ins("setAndReleaseParameter", "geometry", "vertex.attribute0", "distanceArray"),
     Ins("setParameter", "geometry", "radius", ""),
     Ins("commitParameters", "geometry", "", ""),
     Ins("newArray1D", "texelArray", "", ""),
     Ins("map", "texelArray", "", ""),
     Ins("unmap", "texelArray", "", ""),
     Ins("newObject", "texture", "", ""),
     Ins("setAndReleaseParameter", "texture", "image", "texelArray"),
     Ins("setParameter", "texture", "filter", ""),
     Ins("commitParameters", "texture", "", ""),
     Ins("newObject", "material", "", ""),
     Ins("setAndReleaseParameter", "material", "color", "texture"),
     Ins("commitParameters", "material", "", ""),
     Ins("newObject", "surface", "", ""),
     Ins("setAndReleaseParameter", "surface", "geometry", "geometry"),
     Ins("setAndReleaseParameter", "surface", "material", "material"),
     Ins("commitParameters", "surface", "", ""),
     Ins("newArray1D", "surfaceArray", "", ""),
     Ins("map", "surfaceArray", "", ""),
     Ins("unmap", "surfaceArray", "", ""),
     Ins("setAndReleaseParameter", "world", "surface", "surfaceArray"),
     Ins("release", "surface", "", ""),
     Ins("commitParameters", "world", "", ""),
     Ins("newObject", "light", "", ""),
     Ins("setParameterArray1D", "world", "light", "lightArray"),
     Ins("release", "light", "", "") >>

\* mutant: the renderer is committed after each of its two parameters
initializeRenderer_CommitsTwice ==
  << Ins("setParameter", "renderer", "background", ""),
     Ins("commitParameters", "renderer", "", ""),
     Ins("setParameter", "renderer", "pixelSamples", ""),
     Ins("commitParameters", "renderer", "", "") >>

initializeRenderer ==
  << Ins("setParameter", "renderer", "background", ""),
     Ins("setParameter", "renderer", "pixelSamples", ""),
     Ins("commitParameters", "renderer", "", "") >>

initializeCamera ==
  << Ins("setParameter", "camera", "position", ""),
     Ins("setParameter", "camera", "direction", ""),
     Ins("setParameter", "camera", "up", ""),
     Ins("commitParameters", "camera", "", "") >>

\* mutant: the frame initializer commits the camera handle it was passing
initializeFrame_CommitsCamera ==
  << Ins("setParameter", "frame", "size", ""),
     Ins("setParameter", "frame", "channel.color", ""),
     Ins("setParameter", "frame", "world", ""),
     Ins("setParameter", "frame", "renderer", ""),
     Ins("setParameter", "frame", "camera", ""),
     Ins("commitParameters", "camera", "", "") >>

initializeFrame ==
  << Ins("setParameter", "frame", "size", ""),
     Ins("setParameter", "frame", "channel.color", ""),
     Ins("setParameter", "frame", "world", ""),
     Ins("setParameter", "frame", "renderer", ""),
     Ins("setParameter", "frame", "camera", ""),
     Ins("commitParameters", "frame", "", "") >>

\* for (;;) { query; if (finish) break; }
queryExtensionThread ==
  << Ins("deviceHasExtension", "library", "ANARI_KHR_CAMERA_PERSPECTIVE", ""),
     Ins("testFinish", "", "", "") >>

queryBoundsNoWaitThread ==
  << Ins("getProperty", "world", "bounds", "ANARI_NO_WAIT"),
     Ins("testFinish", "", "", "") >>

queryBoundsWaitThread ==
  << Ins("getProperty", "world", "bounds", "ANARI_WAIT"),
     Ins("testFinish", "", "", "") >>

\* mutant: the color channel is mapped at the start of render()
render_MapFirst ==
  << Ins("mapFrame", "frame", "channel.color", ""),
     Ins("render", "frame", "", ""),
     Ins("wait", "frame", "", ""),
     Ins("getProperty", "frame", "duration", "ANARI_NO_WAIT"),
     Ins("stbi_write_png", "frame", "", ""),
     Ins("unmapFrame", "frame", "channel.color", "") >>

\* mutant: the PNG is written before the color channel is mapped
render_WriteBeforeMap ==
  << Ins("render", "frame", "", ""),
     Ins("wait", "frame", "", ""),
     Ins("getProperty", "frame", "duration", "ANARI_NO_WAIT"),
     Ins("stbi_write_png", "frame", "", ""),
     Ins("mapFrame", "frame", "channel.color", ""),
     Ins("unmapFrame", "frame", "channel.color", "") >>

\* the body of render(), executed NumFrames times, then the three stores
render ==
  << Ins("render", "frame", "", ""),
     Ins("wait", "frame", "", ""),
     Ins("getProperty", "frame", "duration", "ANARI_NO_WAIT"),
     Ins("mapFrame", "frame", "channel.color", ""),
     Ins("stbi_write_png", "frame", "", ""),
     Ins("unmapFrame", "frame", "channel.color", "") >>

\* mutant: the three stores are made in the reverse order
renderThread_StoresReversed ==
  render \o
  << Ins("setFinish", "", "", "queryBoundsWait"),
     Ins("setFinish", "", "", "queryBoundsNoWait"),
     Ins("setFinish", "", "", "queryExtension") >>

\* mutant: the store to finish_queryBoundsWait is missing
renderThread_ForgetsFlag ==
  render \o
  << Ins("setFinish", "", "", "queryExtension"),
     Ins("setFinish", "", "", "queryBoundsNoWait") >>

renderThread ==
  render \o
  << Ins("setFinish", "", "", "queryExtension"),
     Ins("setFinish", "", "", "queryBoundsNoWait"),
     Ins("setFinish", "", "", "queryBoundsWait") >>

Programs ==
  [t \in Threads |->
    CASE t = "main" -> mainThread
      [] t = "initWorld" -> initializeWorld
      [] t = "initRenderer" -> initializeRenderer
      [] t = "initCamera" -> initializeCamera
      [] t = "initFrame" -> initializeFrame
      [] t = "queryExtension" -> queryExtensionThread
      [] t = "queryBoundsNoWait" -> queryBoundsNoWaitThread
      [] t = "queryBoundsWait" -> queryBoundsWaitThread
      [] t = "render" -> renderThread]

Program(t) == Programs[t]

NotStarted == 0

Returned(t) == Len(Program(t)) + 1

Running(t) == ~exited /\ pc[t] \in 1..Len(Program(t))

Cur(t) == Program(t)[pc[t]]

At(t, op) == Running(t) /\ Cur(t).op = op

Goto(t, k) == pc' = [pc EXCEPT ![t] = k]

Advance(t) == Goto(t, pc[t] + 1)

\* ---------------------------------------------------------------- functions

\* for (; *extensions; extensions++) if (*extensions == extName) return true;
\* the comparison is std::string's operator== : equality of the characters
RECURSIVE scanExtensions(_, _, _)
scanExtensions(exts, k, name) ==
  IF exts[k] = NULL THEN FALSE
  ELSE IF exts[k] = name THEN TRUE
  ELSE scanExtensions(exts, k + 1, name)

\* mutant: an if in place of the loop, only the first entry is compared
deviceHasExtension_FirstOnly(exts, name) ==
  exts[1] # NULL /\ exts[1] = name

deviceHasExtension(exts, name) == scanExtensions(exts, 1, name)

\* the entries of a null-terminated array: what precedes the first NULL
Entries(exts) ==
  {exts[k] : k \in {n \in 1..Len(exts) : \A j \in 1..n : exts[j] # NULL}}

\* str << "out_" << i << ".png"
FileName(k) == <<"out_", k, ".png">>

\* width and height of the mapped color channel: the size the frame was
\* committed with, 0 x 0 while the frame has no committed "size"
FrameBufferSize ==
  IF "size" \in committed["frame"] THEN <<ImageSize, ImageSize>> ELSE <<0, 0>>

\* mutant: a while (!finish) loop: a poller begins at the test of its flag
Entry_TestFirst(t) ==
  IF t = "render" /\ ~(0 < NumFrames) THEN Len(render) + 1
  ELSE IF t \in Pollers THEN 2 ELSE 1

\* where a started thread begins: the render loop tests i<10 first
Entry(t) ==
  IF t = "render" /\ ~(0 < NumFrames) THEN Len(render) + 1 ELSE 1

\* the process ends with this status; every step of every thread needs a
\* running process
Terminate(code) ==
  /\ exited' = TRUE
  /\ exitCode' = code

\* ---------------------------------------------------------------- actions

LoadLibrary(t) ==
  /\ At(t, "loadLibrary")
  /\ loaded' = loaded + 1
  /\ Advance(t)
  /\ UNCHANGED <<unloaded, created, released, mapped, paramVars, renderVars,
                 pollVars, procVars, extVars>>

UnloadLibrary(t) ==
  /\ At(t, "unloadLibrary")
  /\ unloaded' = unloaded + 1
  /\ Advance(t)
  /\ UNCHANGED <<loaded, created, released, mapped, paramVars, renderVars,
                 pollVars, procVars, extVars>>

\* anari::newDevice, anari::newObject<T>, anari::newArray1D
NewObject(t) ==
  /\ \/ At(t, "newDevice")
     \/ At(t, "newObject")
     \/ At(t, "newArray1D")
  /\ created' = [created EXCEPT ![Cur(t).obj] = @ + 1]
  /\ Advance(t)
  /\ UNCHANGED <<loaded, unloaded, released, mapped, paramVars, renderVars,
                 pollVars, procVars, extVars>>

\* anari::map<T>(device, array)
Map(t) ==
  /\ At(t, "map")
  /\ mapped' = [mapped EXCEPT ![Cur(t).obj] = TRUE]
  /\ Advance(t)
  /\ UNCHANGED <<loaded, unloaded, created, released, paramVars, renderVars,
                 pollVars, procVars, extVars>>

\* anari::unmap(device, array)
Unmap(t) ==
  /\ At(t, "unmap")
  /\ mapped' = [mapped EXCEPT ![Cur(t).obj] = FALSE]
  /\ Advance(t)
  /\ UNCHANGED <<loaded, unloaded, created, released, paramVars, renderVars,
                 pollVars, procVars, extVars>>

SetParameter(t) ==
  /\ At(t, "setParameter")
  /\ staged' = [staged EXCEPT ![Cur(t).obj] = @ \cup {Cur(t).param}]
  /\ Advance(t)
  /\ UNCHANGED <<handleVars, committed, commits, renderVars, pollVars,
                 procVars, extVars>>

\* mutant: setParameter where setAndReleaseParameter was meant
SetAndReleaseParameter_NoRelease(t) ==
  /\ At(t, "setAndReleaseParameter")
  /\ staged' = [staged EXCEPT ![Cur(t).obj] = @ \cup {Cur(t).param}]
  /\ Advance(t)
  /\ UNCHANGED <<handleVars, committed, commits, renderVars, pollVars,
                 procVars, extVars>>

\* sets the handle as a parameter, then releases the handle
SetAndReleaseParameter(t) ==
  /\ At(t, "setAndReleaseParameter")
  /\ staged' = [staged EXCEPT ![Cur(t).obj] = @ \cup {Cur(t).param}]
  /\ released' = [released EXCEPT ![Cur(t).arg] = @ + 1]
  /\ Advance(t)
  /\ UNCHANGED <<loaded, unloaded, created, mapped, committed, commits,
                 renderVars, pollVars, procVars, extVars>>

\* creates an array of the given handles, sets it, releases the array
SetParameterArray1D(t) ==
  /\ At(t, "setParameterArray1D")
  /\ created' = [created EXCEPT ![Cur(t).arg] = @ + 1]
  /\ staged' = [staged EXCEPT ![Cur(t).obj] = @ \cup {Cur(t).param}]
  /\ released' = [released EXCEPT ![Cur(t).arg] = @ + 1]
  /\ Advance(t)
  /\ UNCHANGED <<loaded, unloaded, mapped, committed, commits, renderVars,
                 pollVars, procVars, extVars>>

CommitParameters(t) ==
  /\ At(t, "commitParameters")
  /\ committed' = [committed EXCEPT ![Cur(t).obj] = @ \cup staged[Cur(t).obj]]
  /\ staged' = [staged EXCEPT ![Cur(t).obj] = {}]
  /\ commits' = [commits EXCEPT ![Cur(t).obj] = @ + 1]
  /\ Advance(t)
  /\ UNCHANGED <<handleVars, renderVars, pollVars, procVars, extVars>>

Release(t) ==
  /\ At(t, "release")
  /\ released' = [released EXCEPT ![Cur(t).obj] = @ + 1]
  /\ Advance(t)
  /\ UNCHANGED <<loaded, unloaded, created, mapped, paramVars, renderVars,
                 pollVars, procVars, extVars>>

\* std::thread t([&]() { ... })
StartThread(t) ==
  /\ At(t, "startThread")
  /\ pc[Cur(t).arg] = NotStarted
  /\ pc' = [pc EXCEPT ![t] = @ + 1, ![Cur(t).arg] = Entry(Cur(t).arg)]
  /\ UNCHANGED <<handleVars, paramVars, renderVars, pollVars, procVars, extVars>>

\* mutant: the thread is let go (detach) where it was to be waited for
Join_NoWait(t) ==
  /\ At(t, "join")
  /\ Advance(t)
  /\ UNCHANGED <<handleVars, paramVars, renderVars, pollVars, procVars, extVars>>

\* t.join(): returns once the thread's function has returned
Join(t) ==
  /\ At(t, "join")
  /\ pc[Cur(t).arg] = Returned(Cur(t).arg)
  /\ Advance(t)
  /\ UNCHANGED <<handleVars, paramVars, renderVars, pollVars, procVars, extVars>>

\* return 0 from main
Return(t) ==
  /\ At(t, "return")
  /\ Terminate(ExitOk)
  /\ Advance(t)
  /\ UNCHANGED <<handleVars, paramVars, renderVars, pollVars, extVars>>

\* mutant: the render call waits for the commit of the frame
Render_AfterCommit(t) ==
  /\ At(t, "render")
  /\ commits["frame"] > 0
  /\ frameOps' = [frameOps EXCEPT !["render"] = @ + 1]
  /\ Advance(t)
  /\ UNCHANGED <<handleVars, paramVars, i, fb, files, pollVars, procVars, extVars>>

\* anari::render(device, frame)
Render(t) ==
  /\ At(t, "render")
  /\ frameOps' = [frameOps EXCEPT !["render"] = @ + 1]
  /\ Advance(t)
  /\ UNCHANGED <<handleVars, paramVars, i, fb, files, pollVars, procVars, extVars>>

\* anari::wait(device, frame)
Wait(t) ==
  /\ At(t, "wait")
  /\ frameOps' = [frameOps EXCEPT !["wait"] = @ + 1]
  /\ Advance(t)
  /\ UNCHANGED <<handleVars, paramVars, i, fb, files, pollVars, procVars, extVars>>

\* anari::getProperty: "duration" of the frame in render(), "bounds" of the
\* world in the two bounds pollers
GetProperty(t) ==
  /\ At(t, "getProperty")
  /\ frameOps' =
       IF Cur(t).obj = "frame"
         THEN [frameOps EXCEPT !["duration"] = @ + 1] ELSE frameOps
  /\ Advance(t)
  /\ UNCHANGED <<handleVars, paramVars, i, fb, files, pollVars, procVars, extVars>>

\* auto fb = anari::map<uint32_t>(device, frame, "channel.color")
MapFrame(t) ==
  /\ At(t, "mapFrame")
  /\ mapped' = [mapped EXCEPT ![Cur(t).obj] = TRUE]
  /\ fb' = FrameBufferSize
  /\ frameOps' = [frameOps EXCEPT !["map"] = @ + 1]
  /\ Advance(t)
  /\ UNCHANGED <<loaded, unloaded, created, released, paramVars, i, files,
                 pollVars, procVars, extVars>>

\* stbi_write_png(fileName.c_str(), fb.width, fb.height, 4, fb.data, 4 * fb.width)
WritePng(t) ==
  /\ At(t, "stbi_write_png")
  /\ files' = Append(files, [name |-> FileName(i), width |-> fb[1], height |-> fb[2]])
  /\ frameOps' = [frameOps EXCEPT !["write"] = @ + 1]
  /\ Advance(t)
  /\ UNCHANGED <<handleVars, paramVars, i, fb, pollVars, procVars, extVars>>

\* anari::unmap(device, frame, "channel.color"); render() returns, i++, i<10
UnmapFrame(t) ==
  /\ At(t, "unmapFrame")
  /\ mapped' = [mapped EXCEPT ![Cur(t).obj] = FALSE]
  /\ frameOps' = [frameOps EXCEPT !["unmap"] = @ + 1]
  /\ i' = i + 1
  /\ IF i + 1 < NumFrames THEN Goto(t, 1) ELSE Advance(t)
  /\ UNCHANGED <<loaded, unloaded, created, released, paramVars, fb, files,
                 pollVars, procVars, extVars>>

\* finish_query... = true
SetFinish(t) ==
  /\ At(t, "setFinish")
  /\ finish' = [finish EXCEPT ![Cur(t).arg] = TRUE]
  /\ Advance(t)
  /\ UNCHANGED <<handleVars, paramVars, renderVars, res, procVars, extVars>>

\* bool res = deviceHasExtension(library, "default", "ANARI_KHR_CAMERA_PERSPECTIVE")
QueryExtension(t) ==
  /\ At(t, "deviceHasExtension")
  /\ res' = <<deviceHasExtension(extensions, Cur(t).param)>>
  /\ Advance(t)
  /\ UNCHANGED <<handleVars, paramVars, renderVars, finish, procVars, extVars>>

\* mutant: every poller tests the flag of the blocking bounds query
TestFinish_WrongFlag(t) ==
  /\ At(t, "testFinish")
  /\ IF finish["queryBoundsWait"] THEN Advance(t) ELSE Goto(t, 1)
  /\ UNCHANGED <<handleVars, paramVars, renderVars, pollVars, procVars, extVars>>

\* mutant: the test is negated
TestFinish_Negated(t) ==
  /\ At(t, "testFinish")
  /\ IF ~finish[t] THEN Advance(t) ELSE Goto(t, 1)
  /\ UNCHANGED <<handleVars, paramVars, renderVars, pollVars, procVars, extVars>>

\* if (finish_query...) break;  otherwise the next iteration of for (;;)
TestFinish(t) ==
  /\ At(t, "testFinish")
  /\ IF finish[t] THEN Advance(t) ELSE Goto(t, 1)
  /\ UNCHANGED <<handleVars, paramVars, renderVars, pollVars, procVars, extVars>>

\* Scheduling.  Two kinds of call commute with every step of every other
\* thread: a call on a handle that only initializeWorld holds (its arrays,
\* geometry, sampler, material, surface and light), and a call that stages a
\* parameter, which no operation reads before the commit of the object.  Such
\* calls are run without interleaving: while a thread stands at one, it is
\* the thread that steps.  Commits, releases of shared handles, queries,
\* renders, maps of the frame, flag accesses, thread starts and joins
\* interleave freely.
Private(t) == Running(t) /\ Cur(t).private

Scheduled(t) == \A u \in Threads \ {t} : ~Private(u)

\* the library reports status messages from inside its calls: a message can
\* arrive whenever some thread stands at a library call
InLibraryCall(t) == Running(t) /\ Cur(t).lib

\* mutant: the fatal status is recorded, the process keeps running
statusFunc_NoExit(severity) ==
  /\ {t \in Threads : InLibraryCall(t)} # {}
  /\ IF severity = "FATAL_ERROR"
       THEN /\ exitCode' = ExitFatal
            /\ UNCHANGED <<pc, handleVars, paramVars, renderVars, pollVars,
                           exited, extVars>>
       ELSE UNCHANGED vars

\* mutant: an error ends the process as a fatal error does
statusFunc_ErrorExits(severity) ==
  /\ {t \in Threads : InLibraryCall(t)} # {}
  /\ IF severity \in {"FATAL_ERROR", "ERROR"}
       THEN /\ Terminate(ExitFatal)
            /\ UNCHANGED <<pc, handleVars, paramVars, renderVars, pollVars, extVars>>
       ELSE UNCHANGED vars

\* the status callback the library was loaded with
statusFunc(severity) ==
  /\ {t \in Threads : InLibraryCall(t)} # {}
  /\ IF severity = "FATAL_ERROR"
       THEN /\ Terminate(ExitFatal)
            /\ UNCHANGED <<pc, handleVars, paramVars, renderVars, pollVars, extVars>>
       ELSE UNCHANGED vars

\* one step of thread t: the call its program counter stands at, when the
\* scheduling lets t step
Step(t) ==
  \/ LoadLibrary(t) /\ Scheduled(t)
  \/ UnloadLibrary(t) /\ Scheduled(t)
  \/ NewObject(t) /\ Scheduled(t)
  \/ Map(t) /\ Scheduled(t)
  \/ Unmap(t) /\ Scheduled(t)
  \/ SetParameter(t) /\ Scheduled(t)
  \/ SetAndReleaseParameter(t) /\ Scheduled(t)
  \/ SetParameterArray1D(t) /\ Scheduled(t)
  \/ CommitParameters(t) /\ Scheduled(t)
  \/ Release(t) /\ Scheduled(t)
  \/ StartThread(t) /\ Scheduled(t)
  \/ Join(t) /\ Scheduled(t)
  \/ Return(t) /\ Scheduled(t)
  \/ Render(t) /\ Scheduled(t)
  \/ Wait(t) /\ Scheduled(t)
  \/ GetProperty(t) /\ Scheduled(t)
  \/ MapFrame(t) /\ Scheduled(t)
  \/ WritePng(t) /\ Scheduled(t)
  \/ UnmapFrame(t) /\ Scheduled(t)
  \/ SetFinish(t) /\ Scheduled(t)
  \/ QueryExtension(t) /\ Scheduled(t)
  \/ TestFinish(t) /\ Scheduled(t)

\* the list the device reports: it supports the perspective camera
DeviceExtensions ==
  <<"ANARI_KHR_GEOMETRY_SPHERE", "ANARI_KHR_CAMERA_PERSPECTIVE", NULL>>

Init ==
  /\ pc = [t \in Threads |-> IF t = "main" THEN 1 ELSE NotStarted]
  /\ loaded = 0
  /\ unloaded = 0
  /\ created = [o \in Objects |-> 0]
  /\ released = [o \in Objects |-> 0]
  /\ mapped = [o \in Objects |-> FALSE]
  /\ staged = [o \in Objects |-> {}]
  /\ committed = [o \in Objects |-> {}]
  /\ commits = [o \in Objects |-> 0]
  /\ finish = [p \in Pollers |-> FALSE]
  /\ i = 0
  /\ frameOps = [s \in FrameSteps |-> 0]
  /\ fb = <<0, 0>>
  /\ files = << >>
  /\ res = << >>
  /\ exited = FALSE
  /\ exitCode = 0
  /\ extensions = DeviceExtensions
  /\ extName = "ANARI_KHR_CAMERA_PERSPECTIVE"

Run == \E t \in Threads : Step(t)

Next ==
  \/ Run
  \/ \E severity \in Severities : statusFunc(severity)

Spec == Init /\ [][Next]_vars

NonFatal == Severities \ {"FATAL_ERROR"}

\* The program as it runs when the library reports no fatal status, every
\* library call returns and the operating system schedules every thread that
\* can run.  A status message that is not fatal leaves the state as it is: it
\* is a stuttering step, which [][Run]_vars allows.
FairSpec ==
  /\ Init
  /\ [][Run]_vars
  /\ \A t \in Threads : WF_vars(Step(t))

\* ---------------------------------------------------------------- deviceHasExtension alone

\* every null-terminated array of at most MaxExtensions elements
ExtensionArrays ==
  UNION {{a \in [1..n -> ExtensionNames \cup {NULL}] : a[n] = NULL} : n \in 1..MaxExtensions}

ExtInit ==
  /\ pc = [t \in Threads |-> NotStarted]
  /\ loaded = 0
  /\ unloaded = 0
  /\ created = [o \in Objects |-> 0]
  /\ released = [o \in Objects |-> 0]
  /\ mapped = [o \in Objects |-> FALSE]
  /\ staged = [o \in Objects |-> {}]
  /\ committed = [o \in Objects |-> {}]
  /\ commits = [o \in Objects |-> 0]
  /\ finish = [p \in Pollers |-> FALSE]
  /\ i = 0
  /\ frameOps = [s \in FrameSteps |-> 0]
  /\ fb = <<0, 0>>
  /\ files = << >>
  /\ res = << >>
  /\ exited = FALSE
  /\ exitCode = 0
  /\ extensions \in ExtensionArrays
  /\ extName \in ExtensionNames

CallDeviceHasExtension ==
  /\ res = << >>
  /\ res' = <<deviceHasExtension(extensions, extName)>>
  /\ UNCHANGED <<pc, handleVars, paramVars, renderVars, finish, procVars, extVars>>

ExtNext == CallDeviceHasExtension

ExtSpec == ExtInit /\ [][ExtNext]_vars

\* ---------------------------------------------------------------- properties

MainAt(op, arg) ==
  CHOOSE k \in 1..Len(mainThread) : mainThread[k].op = op /\ mainThread[k].arg = arg

CyclesCompleted == frameOps["unmap"]

AllWorkersReturned == \A t \in Workers : pc[t] = Returned(t)

\* the object an initializer thread is given to initialize
Target(t) ==
  CASE t = "initWorld" -> "world"
    [] t = "initRenderer" -> "renderer"
    [] t = "initCamera" -> "camera"
    [] t = "initFrame" -> "frame"

\* the four objects main creates and hands to an initializer thread
Targets == {Target(t) : t \in Initializers}

\* the initializer thread of such an object
Owner(o) == CHOOSE t \in Initializers : Target(t) = o

MapOps == {"map", "mapFrame"}

UnmapOps == {"unmap", "unmapFrame"}

\* the objects thread t maps
MapsOf(t) ==
  {Program(t)[k].obj : k \in {n \in 1..Len(Program(t)) : Program(t)[n].op \in MapOps}}

\* the handles main releases at its end
MainHandles ==
  {mainThread[k].obj : k \in {n \in 1..Len(mainThread) : mainThread[n].op = "release"}}

\* the calls the polling threads repeat
QueryOps == {"deviceHasExtension", "getProperty"}

\* thread t stands at an instruction of its program and takes it
Stepped(t) == pc[t] \in 1..Len(Program(t)) /\ pc'[t] # pc[t]

\* the positions of initializer t's program that commit its target
CommitsOfTarget(t) ==
  {k \in 1..Len(Program(t)) :
     Program(t)[k].op = "commitParameters" /\ Program(t)[k].obj = Target(t)}

\* C1: no handle is released before it is obtained or more than once, the
\* library is unloaded at most once, and when it is unloaded (which the end
\* of main has done) every handle the program obtained, the arrays, geometry,
\* sampler, material, surface and light of initializeWorld among them, has
\* been obtained once and released once.
C1_ReleasedExactlyOnce ==
  /\ \A o \in Objects : created[o] <= 1 /\ released[o] <= created[o]
  /\ loaded <= 1 /\ unloaded <= loaded
  /\ unloaded = 1 => \A o \in Objects : created[o] = 1 /\ released[o] = 1
  /\ (exited /\ exitCode = ExitOk) => unloaded = 1

C1_Witness ==
  /\ pc["main"] = Returned("main")
  /\ unloaded = 1
  /\ \A o \in Objects : released[o] = 1

\* C3: under fair scheduling, with every library call returning and no fatal
\* status, the program terminates: all eight worker threads return, main
\* passes its joins and the process exits with status 0.
C3_Terminates ==
  <>(exited /\ exitCode = ExitOk /\ AllWorkersReturned /\ pc["main"] = Returned("main"))

C3_Witness ==
  /\ exited
  /\ exitCode = ExitOk
  /\ AllWorkersReturned
  /\ pc["main"] = Returned("main")

\* C2: once a poller's stop flag is true it stays true, and the poller starts
\* at most one further query: its flag test can be taken, it leaves the loop
\* and never goes back to the query; a poller that has left stays out.
C2_StopsWithinOneIteration ==
  [][\A p \in Pollers :
       finish[p] =>
         /\ finish'[p]
         /\ pc[p] = 1 => pc'[p] \in {1, 2}
         /\ pc[p] = 2 => (pc'[p] \in {2, Returned(p)} /\ ENABLED TestFinish(p))
         /\ pc[p] = Returned(p) => pc'[p] = Returned(p)]_vars

C2_Witness ==
  /\ \A p \in Pollers : finish[p] /\ pc[p] = Returned(p)
  /\ pc["main"] = MainAt("join", "queryBoundsWait")

C5_EveryFileHasFrameSize ==
  \A k \in 1..Len(files) :
    files[k].width = ImageSize /\ files[k].height = ImageSize

\* C6: while fewer than NumFrames render cycles have completed, every stop
\* flag is false, no polling thread has returned and main has passed none
\* of its joins.
C6_NoStopBeforeLastCycle ==
  CyclesCompleted < NumFrames =>
    /\ \A p \in Pollers : ~finish[p] /\ pc[p] # Returned(p)
    /\ pc["main"] <= MainAt("join", "render")

C6_Witness ==
  /\ CyclesCompleted = NumFrames - 1
  /\ pc["render"] = 6
  /\ pc["main"] = MainAt("join", "render")
  /\ \A p \in Pollers : ~finish[p] /\ pc[p] = 2

\* C7: deviceHasExtension returns true exactly when the name asked for is an
\* entry of the null-terminated array, for every array and name drawn.
C7_TrueIffListed ==
  res # << >> => (res[1] <=> extName \in Entries(extensions))

C7_Witness ==
  /\ res = <<TRUE>>
  /\ Len(extensions) = 3
  /\ extensions[1] # extName
  /\ extensions[2] = extName

\* C8: a status message of severity error, warning, performance warning, info
\* or debug does not end the process and leaves the program counters, the
\* stop flags, the render counter and the handles as they are.
C8_NonFatalChangesNothing ==
  [][\A severity \in NonFatal :
       statusFunc(severity) =>
         /\ ~exited'
         /\ UNCHANGED <<pc, finish, i, loaded, unloaded, created, released>>]_vars

C8_Witness ==
  /\ ~exited
  /\ frameOps["render"] = 1
  /\ pc["render"] = 2
  /\ InLibraryCall("render")
  /\ \A severity \in NonFatal : ENABLED statusFunc(severity)

\* C9: the steps of render() are done in the order render, wait, duration
\* read, map, PNG write, unmap, a cycle starts only after the unmap of the
\* one before, the files are out_0.png, out_1.png, ... in this order, a stop
\* flag is set only after NumFrames unmaps, and a render thread that is past
\* its loop has done exactly NumFrames cycles.
C9_RenderCycleOrder ==
  /\ frameOps["render"] >= frameOps["wait"]
  /\ frameOps["wait"] >= frameOps["duration"]
  /\ frameOps["duration"] >= frameOps["map"]
  /\ frameOps["map"] >= frameOps["write"]
  /\ frameOps["write"] >= frameOps["unmap"]
  /\ frameOps["render"] <= frameOps["unmap"] + 1
  /\ frameOps["render"] <= NumFrames
  /\ Len(files) = frameOps["write"]
  /\ \A k \in 1..Len(files) : files[k].name = FileName(k - 1)
  /\ (\E p \in Pollers : finish[p]) => frameOps["unmap"] = NumFrames
  /\ pc["render"] > Len(render) =>
       \A st \in FrameSteps : frameOps[st] = NumFrames

C9_Witness ==
  /\ pc["render"] = Returned("render")
  /\ Len(files) = NumFrames
  /\ files[NumFrames].name = <<"out_", 9, ".png">>

\* C10: the first render call of the render thread can be taken whatever the
\* initializers have committed; in particular it is taken while none of
\* frame, world, renderer and camera has been committed (the witness).
C10_RenderNotOrdered ==
  (~exited /\ pc["render"] = 1) => ENABLED Render("render")

C10_Witness ==
  /\ frameOps["render"] = 1
  /\ \A o \in {"frame", "world", "renderer", "camera"} : commits[o] = 0

\* C11: an initializer that has returned has left no parameter of its target
\* object set and uncommitted.
C11_NoPendingAfterReturn ==
  \A t \in Initializers : pc[t] = Returned(t) => staged[Target(t)] = {}

\* C12: the number of commits of each of world, renderer, camera and frame is
\* the number of commit calls its own initializer has passed, which is at most
\* one, and exactly one once the initializer has returned: nobody else commits
\* the object and the initializer commits it once.
C12_OneCommitByInitializer ==
  \A t \in Initializers :
    /\ commits[Target(t)] = Cardinality({k \in CommitsOfTarget(t) : k < pc[t]})
    /\ commits[Target(t)] <= 1
    /\ pc[t] = Returned(t) => commits[Target(t)] = 1

C12_Witness ==
  /\ \A t \in Initializers : pc[t] = Returned(t) /\ commits[Target(t)] = 1
  /\ pc["main"] = MainAt("join", "render")
  /\ frameOps["render"] > 0

\* C13: each of world, renderer, camera and frame is created at most once, by
\* a step of main taken while its initializer thread is not yet started, and
\* exists once that thread runs; a step that sets a parameter on it or commits
\* it is a step of its own initializer thread, so main, the other
\* initializers, the pollers and the render thread leave its parameters alone.
C13_SingleMutator ==
  [][\A o \in Targets :
       /\ created'[o] <= 1
       /\ created'[o] # created[o] =>
            (Stepped("main") /\ pc[Owner(o)] = NotStarted /\ pc'[Owner(o)] = NotStarted)
       /\ pc'[Owner(o)] # NotStarted => created'[o] = 1
       /\ (staged'[o] # staged[o] \/ committed'[o] # committed[o]
             \/ commits'[o] # commits[o]) =>
            Stepped(Owner(o))]_vars

C13_Witness ==
  /\ \A o \in Targets :
       created[o] = 1 /\ committed[o] # {} /\ pc[Owner(o)] = Returned(Owner(o))
  /\ pc["queryBoundsNoWait"] = 2
  /\ pc["queryBoundsWait"] = 2
  /\ frameOps["map"] > 0
  /\ ~exited

\* C14: a map is taken on an object that is not mapped and an unmap on one
\* that is, both by the one thread whose program maps the object, and a
\* thread that returns leaves nothing it mapped mapped; between the map and
\* the unmap the object is not passed to setAndReleaseParameter or
\* setParameterArray1D, not released and not rendered.
C14_MapUnmapPaired ==
  [][\A t \in Threads :
       Stepped(t) =>
         /\ Cur(t).op \in MapOps =>
              (~mapped[Cur(t).obj] /\ mapped'[Cur(t).obj])
         /\ Cur(t).op \in UnmapOps =>
              (mapped[Cur(t).obj] /\ ~mapped'[Cur(t).obj] /\ Cur(t).obj \in MapsOf(t))
         /\ Cur(t).op \in {"setAndReleaseParameter", "setParameterArray1D"} =>
              ~mapped[Cur(t).arg]
         /\ Cur(t).op \in {"release", "render"} => ~mapped[Cur(t).obj]
         /\ \A o \in Objects :
              mapped'[o] # mapped[o] =>
                (o \in MapsOf(t) /\ \A u \in Threads \ {t} : o \notin MapsOf(u))
         /\ pc'[t] = Returned(t) => \A o \in MapsOf(t) : ~mapped'[o]]_vars

C14_Witness ==
  /\ pc["render"] = 5
  /\ mapped["frame"]
  /\ frameOps["unmap"] = 1
  /\ pc["initWorld"] = Returned("initWorld")
  /\ \A a \in Arrays : ~mapped[a] /\ released[a] = 1
  /\ ~exited

\* C15: a library call is never taken after the library is unloaded, never on
\* a handle main has released (as the object of the call or as the handle
\* passed for a parameter), and a call through the device never after the
\* device is released; once main has released one of its handles or unloaded
\* the library, all eight worker threads have returned and main is past its
\* last join.
C15_NoUseAfterRelease ==
  [][/\ \A t \in Threads :
          (Stepped(t) /\ Cur(t).lib) =>
            /\ unloaded = 0
            /\ Cur(t).obj \in MainHandles => released[Cur(t).obj] = 0
            /\ Cur(t).param \in MainHandles => released[Cur(t).param] = 0
            /\ Cur(t).op \notin {"loadLibrary", "unloadLibrary", "deviceHasExtension"} =>
                 released["device"] = 0
     /\ ((\E o \in MainHandles : released'[o] > 0) \/ unloaded' > 0) =>
          (AllWorkersReturned' /\ pc'["main"] > MainAt("join", "initFrame"))]_vars

C15_Witness ==
  /\ pc["main"] = MainAt("return", "")
  /\ unloaded = 1
  /\ \A o \in MainHandles : released[o] = 1
  /\ AllWorkersReturned
  /\ ~exited

\* C16: every stop flag is false until the render thread is past its loop, a
\* flag changes only in a step of the render thread and only from false to
\* true, and the flags become true in the order extension query,
\* non-blocking bounds query, blocking bounds query: a flag is true only
\* where the flags stored before it are true.
C16_FlagsMonotonicOrdered ==
  [][/\ \A p \in Pollers :
          /\ finish[p] => finish'[p]
          /\ finish'[p] # finish[p] => (Stepped("render") /\ Cur("render").op = "setFinish")
     /\ pc'["render"] <= Len(render) + 1 => \A p \in Pollers : ~finish'[p]
     /\ finish'["queryBoundsNoWait"] => finish'["queryExtension"]
     /\ finish'["queryBoundsWait"] => finish'["queryBoundsNoWait"]]_vars

C16_Witness ==
  /\ finish["queryExtension"]
  /\ finish["queryBoundsNoWait"]
  /\ ~finish["queryBoundsWait"]
  /\ pc["queryBoundsNoWait"] = Returned("queryBoundsNoWait")
  /\ pc["queryBoundsWait"] = 1
  /\ ~exited

\* C17: a polling thread begins at its query, reaches the test of its stop
\* flag only by a query step and returns only from a test that read the flag
\* true, so it has queried before it returns; its query can be taken also
\* when the flag is already true; and a test that reads the flag false is
\* followed directly by the query.
C17_QueryBeforeTest ==
  [][\A p \in Pollers :
       /\ (pc[p] = NotStarted /\ pc'[p] # NotStarted) =>
            (pc'[p] = 1 /\ Program(p)[1].op \in QueryOps)
       /\ (Stepped(p) /\ Cur(p).op \in QueryOps) =>
            Program(p)[pc'[p]].op = "testFinish"
       /\ (Stepped(p) /\ Cur(p).op = "testFinish") =>
            /\ pc[p] > 1 /\ Program(p)[pc[p] - 1].op \in QueryOps
            /\ ~finish[p] => (pc'[p] = 1 /\ Program(p)[1].op \in QueryOps)
            /\ finish[p] => pc'[p] = Returned(p)
       /\ (pc'[p] = Returned(p) /\ pc[p] # Returned(p)) =>
            (Cur(p).op = "testFinish" /\ finish[p])
       /\ (~exited /\ pc[p] = 1) => ENABLED (QueryExtension(p) \/ GetProperty(p))
       /\ pc'["queryExtension"] = Returned("queryExtension") => res' # << >>]_vars

C17_Witness ==
  /\ \A p \in Pollers : finish[p] /\ pc[p] = 1
  /\ res = << >>
  /\ pc["render"] = Returned("render")
  /\ ENABLED QueryExtension("queryExtension")
  /\ ENABLED GetProperty("queryBoundsWait")

====
